---- MODULE Spec2Model ----
\* The CloudWatch batching core of logspout: CloudWatchManager (the registry
\* cw.batches under cw's mutex), Batch (with its own mutex), the three kinds
\* of goroutine that call into it (the container-event listener, the sweeper,
\* one logging goroutine per container) and the two remote calls it makes
\* (getStreamToken, PutLogEvents).
EXTENDS Integers, Sequences, FiniteSets, TLC

\* ---------------------------------------------------------------- constants
maxBatchLength == 1000
maxBatchSize == 32768
messageOverhead == 28

\* ------------------------------------------------------------------- bounds
\* Number of log lines that arrive after the initial state.
MaxEvents == 2
\* The containers; each has one logging goroutine, named after it.
Containers == {"c1", "c2"}
FirstContainer == "c1"
\* Payload lengths of the log lines that arrive: accounted sizes 28, 32768
\* (fills a batch exactly) and 32769 (larger than a whole batch).
Payloads == {0, maxBatchSize - messageOverhead, maxBatchSize - messageOverhead + 1}
\* Number of lines the batch of the first container holds in the initial
\* state in which that container has been logging for a while.
PreFill == maxBatchLength - 1

\* ---------------------------------------------------------------- encoding
\* The nil *Batch.
NIL == 0
\* The empty sequence token "".  Tokens returned by PutLogEvents are 1, 2, ...
NoToken == 0
\* An unlocked sync.Mutex has no owner.
None == "none"

Listener == "listener"
Sweeper == "sweeper"
Goroutines == {Listener, Sweeper} \cup Containers

VARIABLES
  present,        \* the containers on the docker host in this run
  batches,        \* cw.batches: container ID -> address of its Batch, or NIL
  heap,           \* the live Batch objects, by address
  mu,             \* owner of cw's mutex, or None
  pc,             \* where each goroutine is
  loc,            \* each goroutine's local variables
  uploadToken,    \* the remote: UploadSequenceToken of each log stream
  tokenCtr,       \* the remote: number of tokens handed out so far
  nextEvent,      \* identity of the next log line to arrive
  panicked,       \* the function in which the process panicked, or None
  expect,         \* history: per destination, the token returned by its
                  \* last successful submission, or before the first one
                  \* the token getStreamToken gave when it was last opened
  submitted,      \* history: log line identity -> number of successful
                  \* submissions that contained it
  delivered,      \* history: per container, the identity of the last log
                  \* line of its last successful submission, or 0
  sweepFailed     \* history: per container, the arguments of the failed
                  \* sweep submission its batch has not been touched since

vars == <<present, batches, heap, mu, pc, loc, uploadToken, tokenCtr, nextEvent,
          panicked, expect, submitted, delivered, sweepFailed>>

\* ------------------------------------------------------------------ naming
\* renderText: the rendered template, or `logspout` when parsing, the
\* container inspection or the rendering fails.
renderText(rendered, ok) == IF ok THEN rendered ELSE "logspout"

\* DefaultLogGroup is logspout-{{.Host}}
getLogGroupName(ID, ok) == renderText("logspout-host", ok)

\* DefaultLogStream is {{.Host}}-{{.Name}}
getLogStreamName(ID, ok) == renderText("host-" \o ID, ok)

Groups == {getLogGroupName(c, ok) : c \in Containers, ok \in BOOLEAN}
Streams == {getLogStreamName(c, ok) : c \in Containers, ok \in BOOLEAN}
Dests == Groups \X Streams

\* ------------------------------------------------------------------- Batch
\* &Batch{GroupName: group, StreamName: stream, Token: token}
NewBatch(group, stream, token) ==
  [GroupName |-> group, StreamName |-> stream, Token |-> token,
   bytes |-> 0, logs |-> <<>>, mu |-> None]

\* A log line: Data is its payload, of which the model keeps the identity
\* and the length in bytes.
Log(ID, id, len) == [ID |-> ID, Data |-> [id |-> id, len |-> len]]

NoLog == Log("", 0, 0)

messageSize(dockerLog) == dockerLog.Data.len + messageOverhead

\* An append that accounts the payload without the per-event overhead.
AddEvent_PayloadOnly(batch, dockerLog) ==
  [batch EXCEPT
     !.logs = Append(@, [Message |-> dockerLog.Data,
                         Timestamp |-> dockerLog.Data.id]),
     !.bytes = @ + dockerLog.Data.len]

\* An append at the head of the list.
AddEvent_AtHead(batch, dockerLog) ==
  [batch EXCEPT
     !.logs = <<[Message |-> dockerLog.Data,
                 Timestamp |-> dockerLog.Data.id]>> \o @,
     !.bytes = @ + messageSize(dockerLog)]

\* time.Now() in milliseconds is the arrival index of the line: it only grows.
AddEvent(batch, dockerLog) ==
  [batch EXCEPT
     !.logs = Append(@, [Message |-> dockerLog.Data,
                         Timestamp |-> dockerLog.Data.id]),
     !.bytes = @ + messageSize(dockerLog)]

\* A count check that is off by one.
messageFits_OffByOne(batch, dockerLog) ==
  LET newSize == batch.bytes + messageSize(dockerLog)
  IN  (Len(batch.logs) < maxBatchLength - 1) /\ (newSize <= maxBatchSize)

\* A byte check that refuses a batch of exactly maxBatchSize bytes.
messageFits_StrictSize(batch, dockerLog) ==
  LET newSize == batch.bytes + messageSize(dockerLog)
  IN  (Len(batch.logs) < maxBatchLength) /\ (newSize < maxBatchSize)

messageFits(batch, dockerLog) ==
  LET newSize == batch.bytes + messageSize(dockerLog)
  IN  (Len(batch.logs) < maxBatchLength) /\ (newSize <= maxBatchSize)

\* ------------------------------------------------------------------- heap
\* A new Batch gets an address no live Batch has.
NewAddr(h) == CHOOSE a \in 1..(Cardinality(DOMAIN h) + 1) : a \notin DOMAIN h

\* Batches that neither the registry nor a local variable refers to are
\* garbage.
Collect(h, bs, l) ==
  LET live == {a \in DOMAIN h :
                 \/ \E c \in Containers : bs[c] = a
                 \/ \E g \in Goroutines : l[g].batch = a}
  IN  [a \in live |-> h[a]]

\* ------------------------------------------------------------------ locals
NoCall == [logs |-> <<>>, GroupName |-> "", StreamName |-> "", Token |-> NoToken]

Idle ==
  [op |-> "", ID |-> "", ev |-> NoLog, batch |-> NIL, group |-> "",
   stream |-> "", call |-> NoCall, called |-> FALSE, err |-> FALSE,
   nextToken |-> NoToken, todo |-> {}, path |-> ""]


\* ----------------------------------------------------------------- Init
\* The state after NewCloudWatchManager and setupAWS: no batches, the
\* listener and the sweeper started.
InitFresh ==
  /\ present = Containers
  /\ batches = [c \in Containers |-> NIL]
  /\ heap = <<>>
  /\ expect = [d \in Dests |-> NoToken]

\* The state after HandleAttachEvent for the first container, the only one
\* on the host, and PreFill calls of HandleLogEvent with an empty line, none
\* submitted yet.
InitLogging ==
  LET c == FirstContainer
      group == getLogGroupName(c, TRUE)
      stream == getLogStreamName(c, TRUE)
  IN  /\ present = {c}
      /\ batches = [x \in Containers |-> IF x = c THEN 1 ELSE NIL]
      /\ heap = 1 :> [NewBatch(group, stream, NoToken) EXCEPT
                        !.logs = [i \in 1..PreFill |->
                                    [Message |-> [id |-> i, len |-> 0],
                                     Timestamp |-> i]],
                        !.bytes = PreFill * messageOverhead]
      /\ expect = [d \in Dests |-> NoToken]

Init ==
  /\ InitFresh \/ InitLogging
  /\ mu = None
  /\ pc = [g \in Goroutines |-> "idle"]
  /\ loc = [g \in Goroutines |-> Idle]
  /\ uploadToken = [d \in Dests |-> NoToken]
  /\ tokenCtr = 0
  /\ nextEvent = PreFill + 1
  /\ panicked = None
  /\ submitted = <<>>
  /\ delivered = [c \in Containers |-> 0]
  /\ sweepFailed = [c \in Containers |-> NoCall]

\* ------------------------------------------------------------- the remote
\* A getStreamToken that returns the stream's token along with its error.
getStreamToken_TokenWithError(streamName, groupName, ok) ==
  [token |-> uploadToken[<<groupName, streamName>>], err |-> ~ok]

\* getStreamToken (createStream): the UploadSequenceToken of the stream, ""
\* for a stream without writes, or "" and an error when a remote call fails.
getStreamToken(streamName, groupName, ok) ==
  IF ok THEN [token |-> uploadToken[<<groupName, streamName>>], err |-> FALSE]
        ELSE [token |-> NoToken, err |-> TRUE]

\* PutLogEvents: a token never handed out before, or an error.
PutLogEvents(ok) ==
  IF ok THEN [nextToken |-> tokenCtr + 1, err |-> FALSE]
        ELSE [nextToken |-> NoToken, err |-> TRUE]

\* ------------------------------------------------------------ goroutines
\* A panic that nothing recovers ends the process.
Running == panicked = None

\* A lock that excludes nobody.
CanLock_NoExclusion(g) == TRUE

\* cw.Lock() returns once no goroutine holds cw's mutex.
CanLock(g) == mu = None

\* batch.Lock() returns once no goroutine holds the batch's mutex.
CanLockBatch(g, a) == heap[a].mu = None

\* A nil pointer dereference in fn.
Panic(fn) ==
  /\ panicked' = fn
  /\ UNCHANGED <<present, batches, heap, mu, pc, loc, uploadToken, tokenCtr,
                 expect, submitted, delivered, sweepFailed>>

Ids(logs) == {logs[i].Message.id : i \in 1..Len(logs)}

\* The history of successful submissions, with one more of logs.
Count(logs) ==
  LET ids == Ids(logs)
  IN  [id \in DOMAIN submitted \cup ids |->
         (IF id \in DOMAIN submitted THEN submitted[id] ELSE 0)
         + (IF id \in ids THEN 1 ELSE 0)]

\* ------------------------------------------------------ submitBatchForID
\* A replacement that keeps the token of the submitted batch.
Replacement_StaleToken(batch, nextToken) ==
  NewBatch(batch.GroupName, batch.StreamName, batch.Token)

\* A replacement that keeps the events of the submitted batch.
Replacement_KeepsLogs(batch, nextToken) ==
  [batch EXCEPT !.Token = nextToken, !.mu = None]

\* The Batch that replaces a submitted one.
Replacement(batch, nextToken) ==
  NewBatch(batch.GroupName, batch.StreamName, nextToken)

\* A failure that stores the empty token PutLogEvents returned with its error.
FailedBatch_TokenCleared(batch) == [batch EXCEPT !.Token = NoToken]

\* A failure that empties the batch.
FailedBatch_Emptied(batch) == [batch EXCEPT !.logs = <<>>, !.bytes = 0]

\* The Batch after PutLogEvents failed: `return err` leaves it as it was.
FailedBatch(batch) == batch

\* A submitBatchForID that calls PutLogEvents for an empty batch too.
submitBatchForID_EmptyToo(g, ID, l) ==
  LET batch == heap[batches[ID]]
  IN  /\ pc' = [pc EXCEPT ![g] = "put"]
      /\ loc' = [loc EXCEPT ![g] =
                   [l EXCEPT !.ID = ID, !.called = TRUE, !.err = FALSE,
                             !.nextToken = NoToken,
                             !.call = [logs |-> batch.logs,
                                       GroupName |-> batch.GroupName,
                                       StreamName |-> batch.StreamName,
                                       Token |-> batch.Token]]]

\* submitBatchForID(ID) by goroutine g, whose locals are l, up to its call of
\* PutLogEvents, or to its return when the batch is empty.
submitBatchForID(g, ID, l) ==
  LET batch == heap[batches[ID]]
  IN  IF Len(batch.logs) > 0
      THEN /\ pc' = [pc EXCEPT ![g] = "put"]
           /\ loc' = [loc EXCEPT ![g] =
                        [l EXCEPT !.ID = ID, !.called = TRUE, !.err = FALSE,
                                  !.nextToken = NoToken,
                                  !.call = [logs |-> batch.logs,
                                            GroupName |-> batch.GroupName,
                                            StreamName |-> batch.StreamName,
                                            Token |-> batch.Token]]]
      ELSE /\ pc' = [pc EXCEPT ![g] = "submitted"]
           /\ loc' = [loc EXCEPT ![g] =
                        [l EXCEPT !.ID = ID, !.called = FALSE, !.err = FALSE,
                                  !.nextToken = NoToken, !.call = NoCall]]

\* PutLogEvents returns to submitBatchForID, which returns to its caller.
PutLogEventsReturns(g) ==
  /\ Running
  /\ pc[g] = "put"
  /\ \E ok \in BOOLEAN :
       LET ID == loc[g].ID
           batch == heap[batches[ID]]
           dest == <<batch.GroupName, batch.StreamName>>
           r == PutLogEvents(ok)
           a == NewAddr(heap)
       IN  IF ~r.err
           THEN /\ batches' = [batches EXCEPT ![ID] = a]
                /\ loc' = [loc EXCEPT ![g].nextToken = r.nextToken,
                                      ![g].err = FALSE]
                /\ heap' = Collect(heap @@ (a :> Replacement(batch, r.nextToken)),
                                   batches', loc')
                /\ uploadToken' = [uploadToken EXCEPT ![dest] = r.nextToken]
                /\ tokenCtr' = r.nextToken
                /\ expect' = [expect EXCEPT ![dest] = r.nextToken]
                /\ submitted' = Count(loc[g].call.logs)
                /\ delivered' = [delivered EXCEPT ![ID] =
                                  loc[g].call.logs[Len(loc[g].call.logs)].Message.id]
                /\ sweepFailed' = [sweepFailed EXCEPT ![ID] = NoCall]
                /\ pc' = [pc EXCEPT ![g] = "submitted"]
                /\ UNCHANGED <<present, mu, nextEvent, panicked>>
           ELSE /\ heap' = [heap EXCEPT ![batches[ID]] = FailedBatch(@)]
                /\ loc' = [loc EXCEPT ![g].err = TRUE]
                /\ sweepFailed' = IF g = Sweeper
                                  THEN [sweepFailed EXCEPT ![ID] = loc[g].call]
                                  ELSE sweepFailed
                /\ pc' = [pc EXCEPT ![g] = "submitted"]
                /\ UNCHANGED <<present, batches, mu, uploadToken, tokenCtr, nextEvent,
                               panicked, expect, submitted, delivered>>

\* -------------------------------------------------------- HandleLogEvent
\* HandleLogEvent, called by the logging goroutine of container g with a new
\* line, up to the append or to the call of PutLogEvents.
HandleLogEvent(g) ==
  /\ Running
  /\ pc[g] = "idle"
  /\ nextEvent <= PreFill + MaxEvents
  /\ CanLock(g)
  /\ \E len \in Payloads :
       LET logEvent == Log(g, nextEvent, len)
           b == batches[logEvent.ID]
           l == [Idle EXCEPT !.op = "log", !.ID = logEvent.ID,
                             !.ev = logEvent, !.batch = b]
       IN  /\ nextEvent' = nextEvent + 1
           /\ IF b = NIL
              THEN Panic("HandleLogEvent")
              ELSE /\ CanLockBatch(g, b)
                   /\ mu' = g
                   /\ IF messageFits(heap[b], logEvent)
                      THEN /\ heap' = [heap EXCEPT ![b] =
                                         [AddEvent(@, logEvent) EXCEPT !.mu = g]]
                           /\ pc' = [pc EXCEPT ![g] = "return"]
                           /\ loc' = [loc EXCEPT ![g] = [l EXCEPT !.path = "added"]]
                           /\ sweepFailed' = [sweepFailed EXCEPT ![logEvent.ID] = NoCall]
                      ELSE /\ heap' = [heap EXCEPT ![b].mu = g]
                           /\ submitBatchForID(g, logEvent.ID, l)
                           /\ UNCHANGED sweepFailed
                   /\ UNCHANGED <<present, batches, uploadToken, tokenCtr, panicked,
                                  expect, submitted, delivered>>

\* A HandleLogEvent that appends to the new batch without newBatch.Lock().
LogAfterSubmit_NoBatchLock(g) ==
  /\ Running
  /\ g \in Containers
  /\ pc[g] = "submitted"
  /\ IF loc[g].err
     THEN /\ pc' = [pc EXCEPT ![g] = "return"]
          /\ loc' = [loc EXCEPT ![g].path = "dropped"]
          /\ UNCHANGED <<heap, sweepFailed>>
     ELSE LET newBatch == batches[loc[g].ID]
          IN  /\ heap' = [heap EXCEPT ![newBatch] = AddEvent(@, loc[g].ev)]
              /\ pc' = [pc EXCEPT ![g] = "return"]
              /\ loc' = [loc EXCEPT ![g].path = "flushed"]
              /\ sweepFailed' = [sweepFailed EXCEPT ![loc[g].ID] = NoCall]
  /\ UNCHANGED <<present, batches, mu, uploadToken, tokenCtr, nextEvent, panicked,
                 expect, submitted, delivered>>

\* HandleLogEvent after submitBatchForID returned.
LogAfterSubmit(g) ==
  /\ Running
  /\ g \in Containers
  /\ pc[g] = "submitted"
  /\ IF loc[g].err
     THEN /\ pc' = [pc EXCEPT ![g] = "return"]
          /\ loc' = [loc EXCEPT ![g].path = "dropped"]
          /\ UNCHANGED <<heap, sweepFailed>>
     ELSE LET newBatch == batches[loc[g].ID]
          IN  /\ CanLockBatch(g, newBatch)
              /\ heap' = [heap EXCEPT ![newBatch] =
                            [AddEvent(@, loc[g].ev) EXCEPT !.mu = g]]
              /\ pc' = [pc EXCEPT ![g] = "return"]
              /\ loc' = [loc EXCEPT ![g].path = "flushed"]
              /\ sweepFailed' = [sweepFailed EXCEPT ![loc[g].ID] = NoCall]
  /\ UNCHANGED <<present, batches, mu, uploadToken, tokenCtr, nextEvent, panicked,
                 expect, submitted, delivered>>

\* ----------------------------------------------------- HandleAttachEvent
\* A HandleAttachEvent that provisions whether the container has a batch or
\* not.
HandleAttachEvent_Unconditional ==
  /\ Running
  /\ pc[Listener] = "idle"
  /\ CanLock(Listener)
  /\ \E ID \in present, ok \in BOOLEAN :
       /\ mu' = Listener
       /\ pc' = [pc EXCEPT ![Listener] = "provision"]
       /\ loc' = [loc EXCEPT ![Listener] =
                    [Idle EXCEPT !.op = "attach", !.ID = ID,
                                 !.group = getLogGroupName(ID, ok),
                                 !.stream = getLogStreamName(ID, ok)]]
  /\ UNCHANGED <<present, batches, heap, uploadToken, tokenCtr, nextEvent, panicked,
                 expect, submitted, delivered, sweepFailed>>

\* HandleAttachEvent up to its call of getStreamToken, or to its return when
\* the container has a batch.
HandleAttachEvent ==
  /\ Running
  /\ pc[Listener] = "idle"
  /\ CanLock(Listener)
  /\ \E ID \in present, ok \in BOOLEAN :
       LET l == [Idle EXCEPT !.op = "attach", !.ID = ID,
                             !.group = getLogGroupName(ID, ok),
                             !.stream = getLogStreamName(ID, ok)]
       IN  /\ mu' = Listener
           /\ IF batches[ID] = NIL
              THEN /\ pc' = [pc EXCEPT ![Listener] = "provision"]
                   /\ loc' = [loc EXCEPT ![Listener] = l]
              ELSE /\ pc' = [pc EXCEPT ![Listener] = "return"]
                   /\ loc' = [loc EXCEPT ![Listener] = [l EXCEPT !.path = "exists"]]
  /\ UNCHANGED <<present, batches, heap, uploadToken, tokenCtr, nextEvent, panicked,
                 expect, submitted, delivered, sweepFailed>>

\* getStreamToken returns to HandleAttachEvent, which installs the Batch.
AttachProvisioned ==
  /\ Running
  /\ pc[Listener] = "provision"
  /\ \E ok \in BOOLEAN :
       LET l == loc[Listener]
           r == getStreamToken(l.stream, l.group, ok)
           a == NewAddr(heap)
       IN  /\ batches' = [batches EXCEPT ![l.ID] = a]
           /\ heap' = heap @@ (a :> NewBatch(l.group, l.stream, r.token))
           /\ expect' = IF uploadToken[<<l.group, l.stream>>] = NoToken
                        THEN [expect EXCEPT ![<<l.group, l.stream>>] = r.token]
                        ELSE expect
           /\ loc' = [loc EXCEPT ![Listener].err = r.err,
                                 ![Listener].path = IF r.err THEN "degraded" ELSE "new"]
  /\ pc' = [pc EXCEPT ![Listener] = "return"]
  /\ UNCHANGED <<present, mu, uploadToken, tokenCtr, nextEvent, panicked, submitted, delivered,
                 sweepFailed>>

\* ----------------------------------------------------- HandleDetachEvent
\* HandleDetachEvent up to the call of PutLogEvents or the return of
\* submitBatchForID.
HandleDetachEvent ==
  /\ Running
  /\ pc[Listener] = "idle"
  /\ CanLock(Listener)
  /\ \E ID \in present :
       IF batches[ID] = NIL
       THEN Panic("HandleDetachEvent") /\ UNCHANGED nextEvent
       ELSE /\ mu' = Listener
            /\ submitBatchForID(Listener, ID, [Idle EXCEPT !.op = "detach"])
            /\ UNCHANGED <<present, batches, heap, uploadToken, tokenCtr, nextEvent,
                           panicked, expect, submitted, delivered, sweepFailed>>

\* A detach that returns on the error, before the delete.
Deleted_UnlessFailed(l) == IF l.err THEN batches ELSE [batches EXCEPT ![l.ID] = NIL]

\* delete(cw.batches, event.ID), whatever submitBatchForID returned to l.
Deleted(l) == [batches EXCEPT ![l.ID] = NIL]

\* HandleDetachEvent after submitBatchForID returned.
DetachAfterSubmit ==
  /\ Running
  /\ pc[Listener] = "submitted"
  /\ LET l == loc[Listener]
     IN  /\ batches' = Deleted(l)
         /\ heap' = Collect(heap, batches', loc)
         /\ sweepFailed' = [sweepFailed EXCEPT ![l.ID] = NoCall]
         /\ loc' = [loc EXCEPT ![Listener].path =
                      IF l.err THEN "failed"
                      ELSE IF l.called THEN "submitted" ELSE "empty"]
  /\ pc' = [pc EXCEPT ![Listener] = "return"]
  /\ UNCHANGED <<present, mu, uploadToken, tokenCtr, nextEvent, panicked, expect,
                 submitted, delivered>>

\* ---------------------------------------------------- sweepForOldBatches
\* runSweeper wakes up and sweepForOldBatches takes the lock; the loop ranges
\* over the keys of cw.batches.
SweepCall ==
  /\ Running
  /\ pc[Sweeper] = "idle"
  /\ CanLock(Sweeper)
  /\ mu' = Sweeper
  /\ pc' = [pc EXCEPT ![Sweeper] = "sweep"]
  /\ loc' = [loc EXCEPT ![Sweeper] =
               [Idle EXCEPT !.op = "sweep",
                            !.todo = {c \in Containers : batches[c] # NIL}]]
  /\ UNCHANGED <<present, batches, heap, uploadToken, tokenCtr, nextEvent, panicked,
                 expect, submitted, delivered, sweepFailed>>

\* One iteration of the loop, in the order the map yields the keys.
SweepNext ==
  /\ Running
  /\ pc[Sweeper] = "sweep"
  /\ \E ID \in loc[Sweeper].todo :
       submitBatchForID(Sweeper, ID, [loc[Sweeper] EXCEPT !.todo = @ \ {ID}])
  /\ UNCHANGED <<present, batches, heap, mu, uploadToken, tokenCtr, nextEvent, panicked,
                 expect, submitted, delivered, sweepFailed>>

\* submitBatchForID returned; its error is ignored.
SweepAfterSubmit ==
  /\ Running
  /\ pc[Sweeper] = "submitted"
  /\ pc' = [pc EXCEPT ![Sweeper] = "sweep"]
  /\ UNCHANGED <<present, batches, heap, mu, loc, uploadToken, tokenCtr, nextEvent,
                 panicked, expect, submitted, delivered, sweepFailed>>

\* The loop is over.
SweepDone ==
  /\ Running
  /\ pc[Sweeper] = "sweep"
  /\ loc[Sweeper].todo = {}
  /\ pc' = [pc EXCEPT ![Sweeper] = "return"]
  /\ loc' = [loc EXCEPT ![Sweeper].path = "done"]
  /\ UNCHANGED <<present, batches, heap, mu, uploadToken, tokenCtr, nextEvent, panicked,
                 expect, submitted, delivered, sweepFailed>>

\* ----------------------------------------------------------------- return
\* The deferred Unlock calls of a handler run and it returns.
Return(g) ==
  /\ Running
  /\ pc[g] = "return"
  /\ mu' = None
  /\ pc' = [pc EXCEPT ![g] = "idle"]
  /\ loc' = [loc EXCEPT ![g] = Idle]
  /\ heap' = Collect([a \in DOMAIN heap |->
                        IF heap[a].mu = g THEN [heap[a] EXCEPT !.mu = None]
                                          ELSE heap[a]],
                     batches, loc')
  /\ UNCHANGED <<present, batches, uploadToken, tokenCtr, nextEvent, panicked,
                 expect, submitted, delivered, sweepFailed>>

Next ==
  \/ \E g \in present : HandleLogEvent(g)
  \/ \E g \in Containers : LogAfterSubmit(g)
  \/ HandleAttachEvent
  \/ AttachProvisioned
  \/ HandleDetachEvent
  \/ DetachAfterSubmit
  \/ SweepCall
  \/ SweepNext
  \/ SweepAfterSubmit
  \/ SweepDone
  \/ \E g \in Goroutines : PutLogEventsReturns(g)
  \/ \E g \in Goroutines : Return(g)

Spec == Init /\ [][Next]_vars

\* PutLogEvents returns without an error.
PutSucceeds(g) == PutLogEventsReturns(g) /\ ~loc'[g].err

\* The scheduling the delivery guarantee assumes: runSweeper loops forever and
\* its cw.Lock() is granted in the end, a submission of the sweeper that is
\* tried again and again succeeds in the end, every remote call returns, and
\* a handler that can go on does.
FairSpec ==
  /\ Spec
  /\ SF_vars(SweepCall)
  /\ WF_vars(SweepNext)
  /\ WF_vars(SweepAfterSubmit)
  /\ WF_vars(SweepDone)
  /\ SF_vars(PutSucceeds(Sweeper))
  /\ WF_vars(AttachProvisioned)
  /\ WF_vars(DetachAfterSubmit)
  /\ \A g \in Containers : WF_vars(LogAfterSubmit(g))
  /\ \A g \in Goroutines : WF_vars(PutLogEventsReturns(g))
  /\ \A g \in Goroutines : WF_vars(Return(g))

\* ================================================================= claims
InFlight == {g \in Goroutines : pc[g] = "put"}

Registered == {c \in Containers : batches[c] # NIL}

BatchOf(c) == heap[batches[c]]

DestOf(call) == <<call.GroupName, call.StreamName>>

LogReturns(g, path) == pc[g] = "return" /\ loc[g].op = "log" /\ loc[g].path = path

\* C1: the token passed to each PutLogEvents call for a destination is the
\* token returned by the last successful submission for that destination, or
\* the token getStreamToken gave when the stream was opened if there has been
\* none.
TokenChain ==
  \A g \in InFlight : loc[g].call.Token = expect[DestOf(loc[g].call)]

\* C2: every batch in cw.batches has at most maxBatchLength events and at
\* most maxBatchSize accounted bytes.
BatchBounds ==
  \A c \in Registered :
    /\ Len(BatchOf(c).logs) <= maxBatchLength
    /\ BatchOf(c).bytes <= maxBatchSize

\* C3: at most one PutLogEvents call is in progress at any time, so never two
\* for the same source or the same destination.
OneSubmissionInFlight == Cardinality(InFlight) <= 1

\* C3 witness: a submission is in progress while another source holds events
\* that wait for theirs.
SubmissionWhileOtherPending ==
  \E g \in InFlight : \E c \in Registered :
    c # loc[g].ID /\ Len(BatchOf(c).logs) > 0

\* C4: when submitBatchForID returns after a successful PutLogEvents, the
\* registry holds for that ID an empty batch with zero bytes, the returned
\* token and the destination of the submitted batch.
FlushResult ==
  \A g \in Goroutines :
    (pc[g] = "submitted" /\ loc[g].called /\ ~loc[g].err) =>
      /\ loc[g].ID \in Registered
      /\ BatchOf(loc[g].ID).logs = <<>>
      /\ BatchOf(loc[g].ID).bytes = 0
      /\ BatchOf(loc[g].ID).Token = loc[g].nextToken
      /\ BatchOf(loc[g].ID).GroupName = loc[g].call.GroupName
      /\ BatchOf(loc[g].ID).StreamName = loc[g].call.StreamName

\* C4 witness: submitBatchForID has returned from a successful submission of
\* a batch whose token was not the empty one.
FlushSucceeded ==
  \E g \in Goroutines :
    /\ pc[g] = "submitted" /\ loc[g].called /\ ~loc[g].err
    /\ loc[g].call.Token # NoToken
    /\ loc[g].nextToken # loc[g].call.Token

\* C5: no log line is contained in more than one successful submission.
NoResubmission == \A id \in DOMAIN submitted : submitted[id] <= 1

\* C5 witness: the only container has had two successful submissions, the
\* second after the first batch was replaced.
SubmittedTwice ==
  /\ present = {FirstContainer}
  /\ tokenCtr >= 2
  /\ Cardinality(DOMAIN submitted) > PreFill + 1

\* C6: HandleLogEvent for a container without a batch returns without a
\* fault.
UnroutableEventDropped == panicked # "HandleLogEvent"

\* C7 as stated: when the submission HandleLogEvent triggered fails, the
\* registry holds an empty batch with the prior token on return.
FailedFlushEmptiesBatch ==
  \A g \in Containers :
    LogReturns(g, "dropped") =>
      /\ BatchOf(loc[g].ID).logs = <<>>
      /\ BatchOf(loc[g].ID).Token = loc[g].call.Token

\* C7 as amended: when the submission HandleLogEvent triggered fails, the
\* event is dropped and the registry still holds the same batch, with the
\* events and the token that were submitted.
FailedFlushKeepsBatch ==
  \A g \in Containers :
    LogReturns(g, "dropped") =>
      /\ batches[loc[g].ID] = loc[g].batch
      /\ BatchOf(loc[g].ID).logs = loc[g].call.logs
      /\ BatchOf(loc[g].ID).logs # <<>>
      /\ BatchOf(loc[g].ID).Token = loc[g].call.Token
      /\ loc[g].ev.Data.id \notin Ids(BatchOf(loc[g].ID).logs)

\* C7 witness: HandleLogEvent is about to return after a failed submission.
FlushFailedInLogEvent == \E g \in Containers : LogReturns(g, "dropped")

\* A step of the sweeper around a failed submission.
SweepFailureStep ==
  /\ (pc[Sweeper] = "put" /\ pc'[Sweeper] = "submitted" /\ loc'[Sweeper].err)
       => (batches' = batches /\ heap' = heap)
  /\ (pc[Sweeper] = "sweep" /\ pc'[Sweeper] = "put"
        /\ sweepFailed[loc'[Sweeper].ID] # NoCall)
       => loc'[Sweeper].call = sweepFailed[loc'[Sweeper].ID]

\* C8: a failed PutLogEvents in the sweep changes neither the registry nor any
\* batch, and when the sweeper next submits for a container whose batch was
\* not touched since, it passes the same events, destination and token.
SweepFailureKeepsBatch == [][SweepFailureStep]_vars

\* C8 witness: the sweeper submits again a batch whose last sweep submission
\* failed.
SweepRetries ==
  /\ pc[Sweeper] = "put"
  /\ sweepFailed[loc[Sweeper].ID] # NoCall

\* C9: when HandleDetachEvent returns, the registry has no entry for the ID,
\* and no batch in it holds an event of the batch that was to be submitted.
DetachRemoves ==
  (pc[Listener] = "return" /\ loc[Listener].op = "detach") =>
    /\ batches[loc[Listener].ID] = NIL
    /\ \A c \in Registered :
         Ids(BatchOf(c).logs) \cap Ids(loc[Listener].call.logs) = {}

\* C9 witness: HandleDetachEvent is about to return after its submission
\* failed.
DetachFailed ==
  /\ pc[Listener] = "return"
  /\ loc[Listener].op = "detach"
  /\ loc[Listener].path = "failed"

\* A step of HandleLogEvent that ends in the flush and replace, or that
\* starts at a batch one event short of full.
OverflowStep ==
  /\ \A g \in Containers :
       (pc'[g] = "return" /\ loc'[g].op = "log" /\ loc'[g].path = "flushed") =>
         LET l == loc'[g]
             b == heap'[batches'[l.ID]]
         IN  /\ l.called
             /\ batches'[l.ID] # l.batch
             /\ b.GroupName = l.call.GroupName
             /\ b.StreamName = l.call.StreamName
             /\ b.Token = l.nextToken
             /\ Len(b.logs) = 1
             /\ b.logs[1].Message = l.ev.Data
  /\ \A g \in Containers :
       (/\ pc[g] = "idle" /\ pc'[g] # "idle"
        /\ g \in Registered
        /\ Len(BatchOf(g).logs) = maxBatchLength - 1
        /\ BatchOf(g).bytes + messageSize(loc'[g].ev) <= maxBatchSize) =>
         /\ pc'[g] = "return"
         /\ batches' = batches
         /\ Len(heap'[batches[g]].logs) = maxBatchLength
         /\ heap'[batches[g]].logs[maxBatchLength].Message = loc'[g].ev.Data
         /\ SubSeq(heap'[batches[g]].logs, 1, maxBatchLength - 1) = BatchOf(g).logs

\* C10: when HandleLogEvent returns after a successful submission that the
\* event triggered, the registry holds a new batch with the destination of
\* the submitted one, the returned token and that event alone; and an event
\* that arrives at a batch of maxBatchLength - 1 events and fits byte-wise is
\* appended to that batch without a submission.
OverflowFlushesAndReplaces == [][OverflowStep]_vars

\* C10 witness: HandleLogEvent is about to return after the submission of a
\* batch that was full by count.
FlushedFullBatch ==
  \E g \in Containers :
    LogReturns(g, "flushed") /\ Len(loc[g].call.logs) = maxBatchLength

\* A step in which HandleLogEvent evaluates messageFits for the batch of its
\* container.
FitStep ==
  \A g \in Containers :
    (pc[g] = "idle" /\ pc'[g] # "idle" /\ g \in Registered) =>
      LET b == BatchOf(g)
          ev == loc'[g].ev
          fits == /\ Len(b.logs) + 1 <= 1000
                  /\ b.bytes + (ev.Data.len + 28) <= 32768
      IN  /\ fits <=> (loc'[g].path = "added")
          /\ ~fits => /\ pc'[g] \in {"put", "submitted"}
                      /\ batches' = batches
                      /\ heap' = [heap EXCEPT ![batches[g]].mu = g]

\* C11: messageFits is true exactly when the batch has room for one more
\* event within 1000 and its bytes plus the payload length plus 28 stay
\* within 32768, and evaluating it changes no field of the batch.
FitPredicate == [][FitStep]_vars

\* C11 witness: an event that fills a batch to exactly maxBatchSize bytes has
\* been appended.
FitsExactly ==
  \E g \in Containers :
    /\ LogReturns(g, "added")
    /\ BatchOf(g).bytes = maxBatchSize

\* The sum over the events lo..hi of logs of payload length plus 28, by halves.
RECURSIVE SizeOfRange(_, _, _)
SizeOfRange(logs, lo, hi) ==
  IF lo > hi THEN 0
  ELSE IF lo = hi THEN logs[lo].Message.len + 28
  ELSE LET mid == (lo + hi) \div 2
       IN  SizeOfRange(logs, lo, mid) + SizeOfRange(logs, mid + 1, hi)

AccountedSize(logs) == SizeOfRange(logs, 1, Len(logs))

\* A step seen from the batches: those whose events change gain exactly one
\* event at the end and its accounted size in bytes, and every batch after
\* the step has the bytes of its events.
AccountingStep ==
  /\ \A a \in DOMAIN heap \cap DOMAIN heap' :
       heap'[a].logs # heap[a].logs =>
         /\ Len(heap'[a].logs) = Len(heap[a].logs) + 1
         /\ SubSeq(heap'[a].logs, 1, Len(heap[a].logs)) = heap[a].logs
         /\ heap'[a].bytes =
              heap[a].bytes + heap'[a].logs[Len(heap'[a].logs)].Message.len + 28
  /\ \A a \in DOMAIN heap' : heap'[a].bytes = AccountedSize(heap'[a].logs)

\* C12: the bytes of every batch are the sum over its events of payload
\* length plus 28, and AddEvent appends exactly one event at the end and
\* adds exactly that event's accounted size to bytes.
ByteAccounting ==
  /\ \A a \in DOMAIN heap : heap[a].bytes = AccountedSize(heap[a].logs)
  /\ [][AccountingStep]_vars

\* C12 witness: an event has been appended to a batch that now holds
\* maxBatchLength events.
AppendedToLongBatch ==
  \E g \in Containers :
    /\ LogReturns(g, "added")
    /\ Len(BatchOf(g).logs) = maxBatchLength

\* The fields of a batch other than its mutex.
Fields(batch) == [batch EXCEPT !.mu = None]

\* A step around submitBatchForID: a PutLogEvents call it starts carries
\* events, and when it returns without a call the batch of the ID was empty
\* and the registry and the fields of every batch are as before.
EmptyFlushStep ==
  \A g \in Goroutines :
    /\ pc'[g] = "put" => loc'[g].call.logs # <<>>
    /\ (pc[g] # "submitted" /\ pc'[g] = "submitted" /\ ~loc'[g].called) =>
         /\ BatchOf(loc'[g].ID).logs = <<>>
         /\ batches' = batches
         /\ DOMAIN heap' = DOMAIN heap
         /\ \A a \in DOMAIN heap : Fields(heap'[a]) = Fields(heap[a])
         /\ UNCHANGED <<uploadToken, submitted>>

\* C13: a flush of a batch without events makes no PutLogEvents call and
\* leaves the registry entry, its batch, token and destination unchanged.
EmptyBatchNotSubmitted == [][EmptyFlushStep]_vars

\* C13 witness: the sweeper's submitBatchForID has returned without a call
\* for a container whose empty batch carries a token.
SweptEmptyBatch ==
  /\ pc[Sweeper] = "submitted"
  /\ ~loc[Sweeper].called
  /\ BatchOf(loc[Sweeper].ID).logs = <<>>
  /\ BatchOf(loc[Sweeper].ID).Token # NoToken

\* C14: when getStreamToken fails for a container without a batch,
\* HandleAttachEvent still installs an empty batch with the resolved
\* destination and the empty token, which accepts the events that follow.
DegradedAdmission ==
  (pc[Listener] = "return" /\ loc[Listener].op = "attach"
     /\ loc[Listener].path = "degraded") =>
    LET l == loc[Listener]
    IN  /\ l.err
        /\ l.ID \in Registered
        /\ Fields(BatchOf(l.ID)) = NewBatch(l.group, l.stream, NoToken)
        /\ l.group = getLogGroupName(l.ID, l.group # "logspout")
        /\ l.stream = getLogStreamName(l.ID, l.stream # "logspout")
        /\ \A len \in Payloads :
             len + 28 <= 32768 =>
               messageFits(BatchOf(l.ID), Log(l.ID, nextEvent, len))

\* C14 witness: HandleAttachEvent is about to return after a failed
\* getStreamToken for a stream that has been written to.
AdmittedDegraded ==
  /\ pc[Listener] = "return"
  /\ loc[Listener].op = "attach"
  /\ loc[Listener].path = "degraded"
  /\ uploadToken[<<loc[Listener].group, loc[Listener].stream>>] # NoToken

\* The events followed to their delivery: the first of the initial batch and
\* those that arrive.
Followed == {1} \cup (PreFill + 1)..(PreFill + MaxEvents)

\* The event is in a batch of the registry.
Pending(id) ==
  \E c \in Registered :
    \E i \in DOMAIN BatchOf(c).logs : BatchOf(c).logs[i].Message.id = id

\* The event has been in a successful submission.
Delivered(id) == id \in DOMAIN submitted

\* The event was in the final flush of a stopped container, which failed.
LostAtDetach(id) ==
  /\ pc[Listener] = "return"
  /\ loc[Listener].op = "detach"
  /\ loc[Listener].path = "failed"
  /\ id \in Ids(loc[Listener].call.logs)

\* C15: with a fair sweeper, submissions that succeed in the end and remote
\* calls that return, every event appended to a batch is eventually in a
\* successful submission, unless its container is stopped and the final
\* flush fails.
EventualDelivery ==
  \A id \in Followed : Pending(id) ~> (Delivered(id) \/ LostAtDetach(id))

\* Goroutine g is in newBatch.Lock() for a batch whose mutex it holds itself,
\* with cw's mutex held: nothing can release either.
WaitsForOwnLock(g) ==
  /\ pc[g] = "submitted"
  /\ loc[g].op = "log"
  /\ ~loc[g].err
  /\ mu = g
  /\ heap[batches[loc[g].ID]].mu = g

\* C16: no operation waits for a lock that can never be released, so every
\* operation returns and releases its locks, an event larger than
\* maxBatchSize at an empty batch included.
OperationsReturn == \A g \in Containers : ~WaitsForOwnLock(g)

\* The lines of logs are in the order of their arrival.
InArrivalOrder(logs) ==
  \A i \in 1..(Len(logs) - 1) : logs[i].Message.id < logs[i + 1].Message.id

\* A step seen from the order of the lines: every batch holds its lines in
\* the order of arrival, and a successful submission carries them in that
\* order, all of them later than the lines of the container's earlier
\* successful submissions.
OrderStep ==
  /\ \A a \in DOMAIN heap' : InArrivalOrder(heap'[a].logs)
  /\ \A g \in Goroutines :
       (pc[g] = "put" /\ pc'[g] = "submitted" /\ ~loc'[g].err) =>
         /\ loc[g].call.logs = BatchOf(loc[g].ID).logs
         /\ InArrivalOrder(loc[g].call.logs)
         /\ loc[g].call.logs[1].Message.id > delivered[loc[g].ID]

\* C17: the events of each submission are in the order HandleLogEvent
\* accepted them, and the successful submissions of a container, one after
\* the other, follow the order of arrival of its lines.
OrderPreserved ==
  /\ \A a \in DOMAIN heap : InArrivalOrder(heap[a].logs)
  /\ [][OrderStep]_vars

\* C17 witness: a container has had a second successful submission of several
\* lines.
SecondSubmissionInOrder ==
  \E g \in Goroutines :
    /\ pc[g] = "submitted" /\ loc[g].called /\ ~loc[g].err
    /\ Len(loc[g].call.logs) > 1
    /\ delivered[loc[g].ID] = loc[g].call.logs[Len(loc[g].call.logs)].Message.id
    /\ \E id \in DOMAIN submitted : id < loc[g].call.logs[1].Message.id

\* A step of HandleAttachEvent: for a container that has a batch it goes to
\* its return with the registry and every batch as they were, and
\* getStreamToken is called and a batch installed only for a container
\* without one.
AttachStep ==
  /\ (pc[Listener] = "idle" /\ pc'[Listener] # "idle"
        /\ loc'[Listener].op = "attach"
        /\ loc'[Listener].ID \in Registered) =>
       /\ pc'[Listener] = "return"
       /\ UNCHANGED <<batches, heap, uploadToken, expect>>
  /\ pc'[Listener] = "provision" => loc'[Listener].ID \notin Registered
  /\ (pc[Listener] = "provision" /\ pc'[Listener] = "return") =>
       /\ loc[Listener].ID \notin Registered
       /\ batches'[loc[Listener].ID] \notin DOMAIN heap
       /\ Len(heap'[batches'[loc[Listener].ID]].logs) = 0
       /\ \A a \in DOMAIN heap : heap'[a] = heap[a]

\* C18: HandleAttachEvent for a container that has a batch calls no
\* provisioning and leaves that batch as it is; a new batch is installed only
\* for a container without one.
AttachKeepsExisting == [][AttachStep]_vars

\* C18 witness: HandleAttachEvent is about to return for a container whose
\* batch holds events and a token.
AttachedAgain ==
  /\ pc[Listener] = "return"
  /\ loc[Listener].op = "attach"
  /\ loc[Listener].path = "exists"
  /\ BatchOf(loc[Listener].ID).logs # <<>>
  /\ BatchOf(loc[Listener].ID).Token # NoToken

\* C19: HandleDetachEvent for a container without a batch returns without a
\* fault, submits nothing and leaves the registry as it is.
DetachUnregisteredReturns == panicked # "HandleDetachEvent"

\* A step seen from the locks: a batch that gains an event is locked by the
\* goroutine that holds cw's mutex, a logging goroutine, and whoever holds the
\* mutex of a batch holds cw's mutex, which it took first.
LockStep ==
  /\ \A a \in DOMAIN heap \cap DOMAIN heap' :
       heap'[a].logs # heap[a].logs =>
         /\ mu' \in Containers
         /\ mu \in {None, mu'}
         /\ heap'[a].mu = mu'
         /\ heap[a].mu \in {None, mu'}
  /\ \A a \in DOMAIN heap' :
       heap'[a].mu # None =>
         /\ heap'[a].mu = mu'
         /\ (a \in DOMAIN heap /\ heap[a].mu = None) => mu \in {None, mu'}

\* C20: every AddEvent runs while the calling goroutine holds cw's mutex and
\* the mutex of that batch, and the batch's mutex is taken after cw's.
LockDiscipline == [][LockStep]_vars

\* C20 witness: an event has been appended to the batch that replaced a
\* submitted one, under both locks.
AppendedUnderBothLocks ==
  \E g \in Containers :
    /\ LogReturns(g, "flushed")
    /\ mu = g
    /\ BatchOf(g).mu = g
    /\ heap[loc[g].batch].mu = g

====
